---- MODULE Spec2Model ----
(***************************************************************************)
(* Model of the edit-anything overlay (src/src/components/                 *)
(* OverlayComponent.tsx): one overlay region, its gesture state            *)
(* (isDragging, isResizing, dragStart), the document-level listeners       *)
(* installed by its effect, its in-place text editing, and the boxes and   *)
(* texts it hands to onBoxChange and onTextChange (specification Spec);    *)
(* of one export call of src/src/services/exportService.ts (specification  *)
(* SpecExport); of one AIService.consolidateDetections call of             *)
(* src/src/services/aiService.ts (specification SpecService); and of the   *)
(* App component of src/App.tsx with its requests in flight                *)
(* (specification SpecApp).                                                *)
(*                                                                         *)
(* Numbers.  Normalized coordinates are fixed-point integers: the value    *)
(* 1.0 is One units, so 0.05 is One/20 and 0.001 is one unit.  Rendered    *)
(* sizes are taken from divisors of One, so a pointer delta of d pixels    *)
(* over a width w is exactly d*One/w units and the division of line 110    *)
(* loses nothing.  Floating-point rounding is not modelled.                *)
(*                                                                         *)
(* Scheduling.  Each DOM event is handled to completion, and the render    *)
(* and the effect that follow its state updates run before the next        *)
(* event, so an action is the handler together with the effect of lines    *)
(* 143-152.                                                                *)
(***************************************************************************)
EXTENDS Integers, Sequences, FiniteSets, TLC

VARIABLES
    box_2d,        \* boxData.box_2d, the region's box [yMin, xMin, yMax, xMax]
    renderedSize,  \* prop renderedSize: [width, height] in pixels
    isBoundingBox, \* prop isBoundingBox
    onBoxChange,   \* prop onBoxChange: "undefined", "null" or "fn"
    textIndex,     \* prop textIndex: "undefined" or "0"
    isDragging,    \* useState(false)
    isResizing,    \* useState(false)
    dragStart,     \* useState({x: 0, y: 0})
    listening,     \* document mousemove/mouseup listeners are registered
    committed,     \* last box passed to onBoxChange, <<>> when none yet
    nCommits,      \* number of onBoxChange calls so far
    prevBox,       \* the region's box when the last commit was computed
    prevAnchor,    \* dragStart when the last commit was computed
    lastEvent,     \* what the last handled event did
    nEvents,       \* number of events handled so far
    mounted,       \* the component is mounted
    listeners,     \* document listeners registered: [mousemove, mouseup]
    onTextChange,  \* prop onTextChange: "undefined", "null" or "fn"
    focused,       \* the region's element has the edit focus
    domText,       \* the element's innerText, a sequence of characters
    lastText,      \* last [index, text] passed to onTextChange, <<>> if none
    nTextCommits,  \* number of onTextChange calls so far
    lastPointer,   \* pointer position of the last handled down or move
    gestureOffset, \* box minus anchor at the pointer-down, <<>> once inexact
    exPc,            \* position of the export call
    backgroundImage, \* [naturalWidth, naturalHeight] of the background
    textDetections,  \* the region collection given to the export
    exRenderedSize,  \* the renderedSize argument of the export
    ctxAvailable,    \* canvas.getContext('2d') returns a context
    blobAvailable,   \* canvas.toBlob yields a blob
    canvas,          \* [width, height] of the export canvas, <<>> if unset
    drawImages,      \* number of ctx.drawImage calls
    ctx,             \* the 2D context: drawing state and fillText calls
    exError,         \* the error the export call failed with, "none" if none
    downloads,       \* number of downloads triggered
    selectedFile,       \* App state selectedFile: "null" or a file
    previewUrl,         \* App state previewUrl: "null", "blob:" or "data:"
    step,               \* App state step
    appTextDetections,  \* App state textDetections
    error,              \* App state error: "null" or a message
    isDecomposing,      \* App state isDecomposing
    isConsolidating,    \* App state isConsolidating
    requests,           \* the async handlers waiting for a service
    nRequests,          \* number of async handlers started so far
    appEvent,           \* what the last step of the App did
    mergeInput,         \* the list the last completed consolidation merged
    svcPc,              \* position of the consolidateDetections call
    svcDetections,      \* its argument detections
    svcResponse,        \* what the external service answers
    svcResult           \* the list it returned, <<>> before it returns

vars == <<box_2d, renderedSize, isBoundingBox, onBoxChange, textIndex,
          isDragging, isResizing, dragStart, listening, committed,
          nCommits, prevBox, prevAnchor, lastEvent, nEvents,
          mounted, listeners, onTextChange, focused, domText, lastText,
          nTextCommits, lastPointer, gestureOffset,
          exPc, backgroundImage, textDetections, exRenderedSize,
          ctxAvailable, blobAvailable, canvas, drawImages, ctx, exError,
          downloads,
          selectedFile, previewUrl, step, appTextDetections, error,
          isDecomposing, isConsolidating, requests, nRequests, appEvent,
          mergeInput,
          svcPc, svcDetections, svcResponse, svcResult>>

\* the state of one overlay region
overlayVars ==
    <<box_2d, renderedSize, isBoundingBox, onBoxChange, textIndex,
      isDragging, isResizing, dragStart, listening, committed,
      nCommits, prevBox, prevAnchor, lastEvent, nEvents,
      mounted, listeners, onTextChange, focused, domText, lastText,
      nTextCommits, lastPointer, gestureOffset>>

\* the state of one export call
exportVars ==
    <<exPc, backgroundImage, textDetections, exRenderedSize,
      ctxAvailable, blobAvailable, canvas, drawImages, ctx, exError,
      downloads>>

\* the state of the App component and its requests in flight
appVars ==
    <<selectedFile, previewUrl, step, appTextDetections, error,
      isDecomposing, isConsolidating, requests, nRequests, appEvent,
      mergeInput>>

\* the state of one AIService.consolidateDetections call
serviceVars == <<svcPc, svcDetections, svcResponse, svcResult>>

\* the arguments and environment of one export call
exportInputs ==
    <<backgroundImage, textDetections, exRenderedSize, ctxAvailable,
      blobAvailable>>

props == <<renderedSize, isBoundingBox, onBoxChange, textIndex, onTextChange>>

\* the text being edited and what was committed of it
textVars == <<focused, domText, lastText, nTextCommits>>

\* the gesture state and what was committed of it
gestureVars == <<isDragging, isResizing, dragStart, listening, listeners,
                 committed, nCommits, prevBox, prevAnchor, lastPointer,
                 gestureOffset>>

----------------------------------------------------------------------------
(* Bounds and inputs *)

MaxEvents == 4

\* 1.0 in fixed point: the upper clamp of Math.min(1, ...)
One == 1000

\* 0.05, the minimum dimension of the resize branch
MinSize == One \div 20

\* Pointer positions (clientX, clientY) in pixels.  Differences between
\* them give, over a 500x500 rendering, the normalized deltas (+0.02,+0.03),
\* (-10, 0), (-100,-100) and their opposites.
Pointers ==
    { [x |-> 100, y |-> 100],
      [x |-> 110, y |-> 115],
      [x |-> -4900, y |-> 100],
      [x |-> -49900, y |-> -49900] }

RenderedSizes ==
    { [width |-> 500, height |-> 500],
      [width |-> 200, height |-> 100],
      [width |-> 0, height |-> 500],
      [width |-> 500, height |-> 0] }

\* Boxes a detection can carry: coordinates in [0,1], yMin <= yMax,
\* xMin <= xMax; and the malformed ones, a missing box (<<>>) and a box
\* of three components.
InitBoxes ==
    { <<500, 500, 600, 600>>,
      <<200, 200, 300, 300>>,
      <<100, 100, 300, 400>>,
      <<980, 100, 1000, 500>>,
      <<>>,
      <<100, 100, 300>> }

\* Labels shown in the region when it is mounted
InitLabels ==
    { <<"H", "\n", "i">> }

\* keys of the keydown events: Enter and a printing key
Keys == {"Enter", "a"}

----------------------------------------------------------------------------
(* Geometry of handleMouseMove *)

Max(a, b) == IF a >= b THEN a ELSE b
Min(a, b) == IF a <= b THEN a ELSE b

\* a delta measured from the origin instead of from the anchor
pointerDeltaAbsolute(cur, start) == cur

\* a delta with its sign reversed
pointerDeltaReversed(cur, start) == start - cur

\* e.clientX - dragStart.x
pointerDelta(cur, start) == cur - start

\* deltaX / renderedSize.width, in units
normalizedDelta(deltaPx, sizePx) == (deltaPx * One) \div sizePx

\* Math.max(0, Math.min(1, v))
Clamp01(v) == Max(0, Min(One, v))

\* a move that clamps the delta, so that the box keeps its size
MoveBoxClampsDelta(b, dx, dy) ==
    LET cx == Max(0 - b[2], Min(One - b[4], dx))
        cy == Max(0 - b[1], Min(One - b[3], dy))
    IN  << b[1] + cy, b[2] + cx, b[3] + cy, b[4] + cx >>

\* a move that shifts the two max coordinates by the other axis' delta
MoveBoxSwapped(b, dx, dy) ==
    << Clamp01(b[1] + dy), Clamp01(b[2] + dx),
       Clamp01(b[3] + dx), Clamp01(b[4] + dy) >>

\* the newBox of the isDragging branch
MoveBox(b, dx, dy) ==
    << Clamp01(b[1] + dy), Clamp01(b[2] + dx),
       Clamp01(b[3] + dy), Clamp01(b[4] + dx) >>

\* a resize without the lower bound yMin + 0.05 / xMin + 0.05
ResizeBoxNoFloor(b, dx, dy) ==
    << b[1], b[2], Min(One, b[3] + dy), Min(One, b[4] + dx) >>

\* a resize that shifts the origin as the move branch does
ResizeBoxMovesOrigin(b, dx, dy) ==
    << Clamp01(b[1] + dy), Clamp01(b[2] + dx),
       Max(b[1] + MinSize, Min(One, b[3] + dy)),
       Max(b[2] + MinSize, Min(One, b[4] + dx)) >>

\* the newBox of the isResizing branch
ResizeBox(b, dx, dy) ==
    << b[1], b[2],
       Max(b[1] + MinSize, Min(One, b[3] + dy)),
       Max(b[2] + MinSize, Min(One, b[4] + dx)) >>

\* the box b as an offset from the anchor p: b[i] * size - p * One for each
\* coordinate, in units times pixels
offsetFrom(b, p, size) ==
    << b[1] * size.height - p.y * One, b[2] * size.width - p.x * One,
       b[3] * size.height - p.y * One, b[4] * size.width - p.x * One >>

\* b shifted by (dx, dy) has every coordinate in [0,1]
shiftStaysInUnit(b, dx, dy) ==
    /\ 0 <= b[1] + dy /\ b[3] + dy <= One /\ 0 <= b[3] + dy /\ b[1] + dy <= One
    /\ 0 <= b[2] + dx /\ b[4] + dx <= One /\ 0 <= b[4] + dx /\ b[2] + dx <= One

----------------------------------------------------------------------------
(* Rendering *)

\* a render that does not test renderedSize.height
RenderedNoHeightTest ==
    /\ Len(box_2d) >= 4
    /\ renderedSize.width # 0

\* the component returns an element (line 30 does not return null)
Rendered ==
    /\ Len(box_2d) >= 4
    /\ renderedSize.width # 0
    /\ renderedSize.height # 0

\* a rectangle whose height and width are yMax and xMax scaled
toPixelRectNoOrigin(b, size) ==
    [ top |-> b[1] * size.height,
      left |-> b[2] * size.width,
      height |-> b[3] * size.height,
      width |-> b[4] * size.width ]

\* top, left, height and width of lines 36-39, in 1/One pixels
toPixelRect(b, size) ==
    [ top |-> b[1] * size.height,
      left |-> b[2] * size.width,
      height |-> (b[3] - b[1]) * size.height,
      width |-> (b[4] - b[2]) * size.width ]

\* what the component draws: nothing (<<>>) or the pixel rectangle
render ==
    IF ~Rendered THEN <<>> ELSE toPixelRect(box_2d, renderedSize)

\* the vertical placement of the text in the region's element: the class
\* "flex items-center" centres it for every textAlign
overlayVerticalPlacement(boxData) == "center"

\* the horizontal anchor of the text in the region's element:
\* justifyContent is flex-start for left, flex-end for right, center for
\* anything else
overlayHorizontalAnchor(boxData) ==
    IF boxData.textAlign = "left" THEN "left"
    ELSE IF boxData.textAlign = "right" THEN "right"
    ELSE "midpoint"

\* an editability that does not test isBoundingBox
isEditableNoBoundingBoxTest == onTextChange # "undefined"

\* !isBoundingBox && onTextChange !== undefined
isEditable == ~isBoundingBox /\ onTextChange # "undefined"

\* !isBoundingBox && onBoxChange !== undefined
isDraggable == ~isBoundingBox /\ onBoxChange # "undefined"

\* a guard that does not test onBoxChange
GestureAllowedNoCallbackTest ==
    /\ textIndex # "undefined"
    /\ ~isBoundingBox

\* the guard of both mouse-down handlers: the handler goes on only when
\* !(!onBoxChange || textIndex === undefined || isBoundingBox)
GestureAllowed ==
    /\ onBoxChange = "fn"
    /\ textIndex # "undefined"
    /\ ~isBoundingBox

\* the effect: listeners are registered iff isDragging || isResizing
useEffect(dragging, resizing) == dragging \/ resizing

\* the cleanup returned by the effect removes what the effect added
effectCleanup(l, hadCleanup) ==
    IF hadCleanup
    THEN [mousemove |-> l.mousemove - 1, mouseup |-> l.mouseup - 1]
    ELSE l

\* an effect that returns no cleanup
effectRunNoCleanup(l, hadCleanup, dragging, resizing) ==
    IF useEffect(dragging, resizing)
    THEN [mousemove |-> l.mousemove + 1, mouseup |-> l.mouseup + 1]
    ELSE l

\* a change of isDragging, isResizing or dragStart: the previous effect's
\* cleanup runs, then the effect
effectRun(l, hadCleanup, dragging, resizing) ==
    LET c == effectCleanup(l, hadCleanup)
    IN  IF useEffect(dragging, resizing)
        THEN [mousemove |-> c.mousemove + 1, mouseup |-> c.mouseup + 1]
        ELSE c

\* the caller's onBoxChange: stores the new box in the region collection,
\* which comes back as boxData on the next render
StoreBox(newBox) == newBox

----------------------------------------------------------------------------
(* Composite Renderer: src/src/services/exportService.ts                   *)
(*                                                                         *)
(* Canvas pixel quantities are fixed-point integers of Px units per pixel, *)
(* so that the halves and tenths of lines 90-122 are exact.  A value that  *)
(* JavaScript computes as NaN (arithmetic on a missing box component) is   *)
(* the value NaN below; the canvas ignores translate and fillText calls    *)
(* with such an argument.                                                  *)

\* units per canvas pixel
Px == 2 * One

\* the value of arithmetic on undefined
NaN == 0 - One * One * One

IsNaN(v) == v = NaN
NAdd(a, b) == IF IsNaN(a) \/ IsNaN(b) THEN NaN ELSE a + b
NSub(a, b) == IF IsNaN(a) \/ IsNaN(b) THEN NaN ELSE a - b
NMul(a, k) == IF IsNaN(a) THEN NaN ELSE a * k
NHalf(a) == IF IsNaN(a) THEN NaN ELSE a \div 2

\* the i-th component of a destructured box: undefined past its length
Component(b, i) == IF i <= Len(b) THEN b[i] ELSE NaN

\* detection.fontSize || 16
DefaultFontSize == 16

\* Regions of the collection.  fontSize 0, fontFamily "", textAlign
\* "unset" and rotation 0 stand for an absent field; box_2d <<>> for a
\* missing box.
Regions ==
    { [label |-> <<"H", "i", "\n", "T">>, box_2d |-> <<100, 100, 300, 400>>,
       color |-> "#111", fontSize |-> 20, fontFamily |-> "Arial",
       textAlign |-> "center", rotation |-> 0],
      [label |-> <<"A">>, box_2d |-> <<500, 500, 600, 600>>,
       color |-> "#222", fontSize |-> 0, fontFamily |-> "",
       textAlign |-> "right", rotation |-> 30],
      [label |-> <<"B", "\n", "C">>, box_2d |-> <<200, 200, 300, 300>>,
       color |-> "#333", fontSize |-> 12, fontFamily |-> "",
       textAlign |-> "unset", rotation |-> 0],
      [label |-> <<"D">>, box_2d |-> <<100, 100, 300>>,
       color |-> "#444", fontSize |-> 20, fontFamily |-> "",
       textAlign |-> "left", rotation |-> 0],
      [label |-> <<"E">>, box_2d |-> <<>>,
       color |-> "#555", fontSize |-> 20, fontFamily |-> "",
       textAlign |-> "center", rotation |-> 0],
      [label |-> <<"F">>, box_2d |-> <<0, 0, 1000, 1000>>,
       color |-> "#666", fontSize |-> 10, fontFamily |-> "",
       textAlign |-> "justify", rotation |-> 45] }

MaxRegions == 2

RECURSIVE SeqsUpTo(_, _)
\* the sequences over S of length at most n
SeqsUpTo(S, n) ==
    IF n = 0 THEN { <<>> }
    ELSE LET shorter == SeqsUpTo(S, n - 1)
         IN  shorter \cup { Append(q, e) : q \in shorter, e \in S }

NaturalSizes ==
    { [naturalWidth |-> 1000, naturalHeight |-> 1000],
      [naturalWidth |-> 400, naturalHeight |-> 200] }

\* widths of the renderedSize argument
ExportRenderedWidths == {0, 500, 200}

\* a 2D context as the browser creates it
FreshContext ==
    [ font |-> [size |-> 10 * Px, family |-> "sans-serif"],
      fillStyle |-> "#000000",
      textAlign |-> "start",
      textBaseline |-> "alphabetic",
      transform |-> <<>>,
      stack |-> <<>>,
      calls |-> <<>>,
      thrown |-> FALSE ]

\* ctx.save(): pushes the drawing state
ctxSave(c) ==
    [c EXCEPT !.stack = Append(@, [ font |-> c.font,
                                    fillStyle |-> c.fillStyle,
                                    textAlign |-> c.textAlign,
                                    textBaseline |-> c.textBaseline,
                                    transform |-> c.transform ])]

\* a restore that pops the saved state and leaves the transform as it is
ctxRestoreKeepsTransform(c) ==
    IF c.stack = <<>> THEN c
    ELSE LET top == c.stack[Len(c.stack)]
         IN  [c EXCEPT !.font = top.font,
                       !.fillStyle = top.fillStyle,
                       !.textAlign = top.textAlign,
                       !.textBaseline = top.textBaseline,
                       !.stack = SubSeq(@, 1, Len(@) - 1)]

\* ctx.restore(): pops the drawing state, if one was saved
ctxRestore(c) ==
    IF c.stack = <<>> THEN c
    ELSE LET top == c.stack[Len(c.stack)]
         IN  [c EXCEPT !.font = top.font,
                       !.fillStyle = top.fillStyle,
                       !.textAlign = top.textAlign,
                       !.textBaseline = top.textBaseline,
                       !.transform = top.transform,
                       !.stack = SubSeq(@, 1, Len(@) - 1)]

\* ctx.translate(a, b): ignored when an argument is not finite
ctxTranslate(c, a, b) ==
    IF IsNaN(a) \/ IsNaN(b) THEN c
    ELSE [c EXCEPT !.transform =
             Append(@, [op |-> "translate", a |-> a, b |-> b])]

\* ctx.rotate(degrees * PI / 180), the angle kept in degrees
ctxRotate(c, degrees) ==
    [c EXCEPT !.transform =
        Append(@, [op |-> "rotate", a |-> degrees, b |-> 0])]

\* ctx.textAlign = v: a value that is not a canvas alignment is ignored
ctxSetTextAlign(c, v) ==
    IF v \in {"left", "right", "center", "start", "end"}
    THEN [c EXCEPT !.textAlign = v]
    ELSE c

\* ctx.fillText(line, x, y): recorded with the drawing state in effect;
\* nothing is painted when a coordinate is not finite
ctxFillText(c, line, x, y) ==
    [c EXCEPT !.calls =
        Append(@, [ text |-> line, x |-> x, y |-> y,
                    font |-> c.font, fillStyle |-> c.fillStyle,
                    textAlign |-> c.textAlign,
                    transform |-> c.transform,
                    painted |-> ~IsNaN(x) /\ ~IsNaN(y) ])]

RECURSIVE split(_)
\* label.split('\n')
split(label) ==
    IF \A i \in 1..Len(label) : label[i] # "\n" THEN << label >>
    ELSE LET k == CHOOSE i \in 1..Len(label) :
                     /\ label[i] = "\n"
                     /\ \A j \in 1..(i - 1) : label[j] # "\n"
         IN  << SubSeq(label, 1, k - 1) >>
                 \o split(SubSeq(label, k + 1, Len(label)))

\* renderedSize.width > 0 ? renderedSize.width / naturalWidth : 1,
\* as a fraction n/d
scaleFactorOf(renderedWidth, naturalWidth) ==
    IF renderedWidth > 0
    THEN [n |-> renderedWidth, d |-> naturalWidth]
    ELSE [n |-> 1, d |-> 1]

RECURSIVE Gcd(_, _)
Gcd(a, b) == IF b = 0 THEN a ELSE Gcd(b, a % b)

\* the fraction n/d in Px units; a zero denominator gives NaN
fractionToPx(q) ==
    IF q.d = 0 THEN NaN
    ELSE LET g == Gcd(q.n, q.d)
         IN  ((q.n \div g) * Px) \div (q.d \div g)

\* a font size left at the preview's scale
canvasFontSizeScaled(detection, scaleFactor) ==
    LET baseFontSize == IF detection.fontSize # 0
                        THEN detection.fontSize ELSE DefaultFontSize
    IN  fractionToPx([n |-> baseFontSize * scaleFactor.n,
                      d |-> scaleFactor.d])

\* (baseFontSize * scaleFactor) / scaleFactor, in Px units
canvasFontSizeOf(detection, scaleFactor) ==
    LET baseFontSize == IF detection.fontSize # 0
                        THEN detection.fontSize ELSE DefaultFontSize
        scaledFontSize == [n |-> baseFontSize * scaleFactor.n,
                           d |-> scaleFactor.d]
        quotient == [n |-> scaledFontSize.n * scaleFactor.d,
                     d |-> scaledFontSize.d * scaleFactor.n]
    IN  fractionToPx(quotient)

\* a line height of 1.2 times the font size
lineHeightLoose(canvasFontSize) ==
    IF IsNaN(canvasFontSize) THEN NaN ELSE (canvasFontSize * 12) \div 10

\* canvasFontSize * 1.1
lineHeightOf(canvasFontSize) ==
    IF IsNaN(canvasFontSize) THEN NaN ELSE (canvasFontSize * 11) \div 10

\* canvasFontSize * 0.1
paddingOf(canvasFontSize) ==
    IF IsNaN(canvasFontSize) THEN NaN ELSE canvasFontSize \div 10

RECURSIVE fillLines(_, _, _, _, _, _)
\* lines.forEach((line, index) => ctx.fillText(line, textX, startY + index * lineHeight))
fillLines(c, lines, index, textX, startY, lineHeight) ==
    IF index > Len(lines) THEN c
    ELSE fillLines(
             ctxFillText(c, lines[index], textX,
                         NAdd(startY, NMul(lineHeight, index - 1))),
             lines, index + 1, textX, startY, lineHeight)

\* renderTextOnCanvas: draws one detection.  Destructuring a missing box
\* throws a TypeError.
renderTextOnCanvas(c, detection, canvasWidth, canvasHeight, scaleFactor) ==
    IF detection.box_2d = <<>> THEN [c EXCEPT !.thrown = TRUE]
    ELSE
    LET yMin == Component(detection.box_2d, 1)
        xMin == Component(detection.box_2d, 2)
        yMax == Component(detection.box_2d, 3)
        xMax == Component(detection.box_2d, 4)
        x == NMul(xMin, canvasWidth * (Px \div One))
        y == NMul(yMin, canvasHeight * (Px \div One))
        width == NMul(NSub(xMax, xMin), canvasWidth * (Px \div One))
        height == NMul(NSub(yMax, yMin), canvasHeight * (Px \div One))
        canvasFontSize == canvasFontSizeOf(detection, scaleFactor)
        family == IF detection.fontFamily # "" THEN detection.fontFamily
                  ELSE "sans-serif"
        c1 == ctxSetTextAlign(
                  [c EXCEPT !.font = [size |-> canvasFontSize,
                                      family |-> family],
                            !.fillStyle = detection.color],
                  IF detection.textAlign # "unset" THEN detection.textAlign
                  ELSE "center")
        hasRotation == detection.rotation # 0
        lines == split(detection.label)
        lineHeight == lineHeightOf(canvasFontSize)
        totalTextHeight == NMul(lineHeight, Len(lines))
        centred == detection.textAlign = "center"
                      \/ detection.textAlign = "unset"
        startY == IF centred
                  THEN NAdd(y, NHalf(NSub(height, totalTextHeight)))
                  ELSE NAdd(y, paddingOf(canvasFontSize))
        centerX == NAdd(x, NHalf(width))
        centerY == NAdd(y, NHalf(height))
        c2 == IF hasRotation
              THEN ctxTranslate(
                       ctxRotate(ctxTranslate(ctxSave(c1), centerX, centerY),
                                 detection.rotation),
                       NMul(centerX, -1), NMul(centerY, -1))
              ELSE c1
        textX == IF centred THEN NAdd(x, NHalf(width))
                 ELSE IF detection.textAlign = "right"
                      THEN NSub(NAdd(x, width), paddingOf(canvasFontSize))
                      ELSE NAdd(x, paddingOf(canvasFontSize))
        c3 == fillLines(c2, lines, 1, textX, startY, lineHeight)
    IN  IF hasRotation THEN ctxRestore(c3) ELSE c3

RECURSIVE renderAll(_, _, _, _, _, _)
\* textDetections.forEach(detection => this.renderTextOnCanvas(...)); an
\* exception ends the loop
renderAll(c, detections, k, canvasWidth, canvasHeight, scaleFactor) ==
    IF k > Len(detections) \/ c.thrown THEN c
    ELSE renderAll(
             renderTextOnCanvas(c, detections[k], canvasWidth, canvasHeight,
                                scaleFactor),
             detections, k + 1, canvasWidth, canvasHeight, scaleFactor)

\* a drawing that paints an empty caption when there is no detection
drawDetectionsPlaceholder(image, detections, renderedWidth) ==
    IF detections = <<>>
    THEN ctxFillText([FreshContext EXCEPT !.textBaseline = "top"],
                     <<>>, 0, 0)
    ELSE renderAll([FreshContext EXCEPT !.textBaseline = "top"],
                   detections, 1, image.naturalWidth, image.naturalHeight,
                   scaleFactorOf(renderedWidth, image.naturalWidth))

\* the drawing of downloadComposite and getCompositeCanvas, lines 38-48
\* and 189-199: textBaseline, then every detection
drawDetections(image, detections, renderedWidth) ==
    renderAll([FreshContext EXCEPT !.textBaseline = "top"], detections, 1,
              image.naturalWidth, image.naturalHeight,
              scaleFactorOf(renderedWidth, image.naturalWidth))

----------------------------------------------------------------------------
(* Consolidation: AIService.consolidateDetections (aiService.ts) and the   *)
(* handleConsolidate of App.tsx.  A label is a sequence of characters, as  *)
(* in the export; the group indices are the 0-based indices the external   *)
(* service returns.                                                        *)

MaxDetections == 3

\* Detections as the detection service returns them: label, color and
\* box_2d; fontSize 0 stands for the absent field.
Detections ==
    { [label |-> <<"A">>, color |-> "#f00", box_2d |-> <<100, 100, 200, 400>>,
       fontSize |-> 0],
      [label |-> <<"B">>, color |-> "#f00", box_2d |-> <<200, 100, 300, 500>>,
       fontSize |-> 0],
      [label |-> <<"C">>, color |-> "#00f", box_2d |-> <<600, 600, 700, 900>>,
       fontSize |-> 0] }

\* Answers of the external service to the grouping prompt: no group, a
\* group of one colour, groups that mix colours, overlap, repeat a group
\* or an index, name an index out of range, or are empty.
GroupLists ==
    { <<>>,
      << <<0, 1>> >>,
      << <<0, 2>> >>,
      << <<0, 1>>, <<1, 2>> >>,
      << <<0, 1>>, <<0, 1>> >>,
      << <<0, 0>> >>,
      << <<0, 5>> >>,
      << <<>> >>,
      << <<0>>, <<0>> >>,
      << <<1, 0>>, <<2>> >> }

\* the service's answer: the request fails, or JSON with these groups
Responses ==
    { [ok |-> FALSE, groups |-> <<>>] }
        \cup { [ok |-> TRUE, groups |-> g] : g \in GroupLists }

\* detections[index] is undefined: the index is outside the array
isUndefined(detections, index) ==
    ~(0 <= index /\ index < Len(detections))

\* group.map(index => detections[index]), for indices inside the array
boxesOf(detections, group) ==
    [ j \in 1..Len(group) |-> detections[group[j] + 1] ]

RECURSIVE joinLabels(_, _)
\* boxesToMerge.map(b => b.label).join('\n'), from the j-th box on
joinLabels(boxesToMerge, j) ==
    IF j > Len(boxesToMerge) THEN <<>>
    ELSE IF j = Len(boxesToMerge) THEN boxesToMerge[j].label
    ELSE boxesToMerge[j].label \o <<"\n">> \o joinLabels(boxesToMerge, j + 1)

\* Math.min(...values) and Math.max(...values) of a non-empty set
MinOf(S) == CHOOSE v \in S : \A w \in S : v <= w
MaxOf(S) == CHOOSE v \in S : \A w \in S : v >= w

\* the detection pushed for a group: joined label, first colour, the
\* bounding box of the boxes
mergedDetection(boxesToMerge) ==
    LET coords(i) == { boxesToMerge[j].box_2d[i] : j \in 1..Len(boxesToMerge) }
    IN  [ label |-> joinLabels(boxesToMerge, 1),
          color |-> boxesToMerge[1].color,
          box_2d |-> << MinOf(coords(1)), MinOf(coords(2)),
                        MaxOf(coords(3)), MaxOf(coords(4)) >>,
          fontSize |-> 0 ]

\* the indices of a group as a set
indicesOf(group) == { group[j] : j \in 1..Len(group) }

\* detections.forEach: the detections whose index was not processed, in
\* their order
unprocessed(detections, processedIndices) ==
    LET idx == { i \in 1..Len(detections) : (i - 1) \notin processedIndices }
    IN  [ j \in 1..Cardinality(idx) |->
              detections[CHOOSE i \in idx :
                             Cardinality({ h \in idx : h < i }) = j - 1] ]

RECURSIVE groupLoop(_, _, _, _, _)
\* for (const group of groups) of aiService.ts lines 174-201 (sameColor
\* TRUE) and of App.tsx lines 396-416, which has no colour test (sameColor
\* FALSE); acc holds newDetections and processedIndices.  Reading .color
\* of the first box of an empty group throws.
groupLoop(detections, groups, k, acc, sameColor) ==
    IF k > Len(groups)
    THEN [ thrown |-> FALSE,
           value |-> acc.newDetections
                        \o unprocessed(detections, acc.processedIndices) ]
    ELSE LET group == groups[k]
             boxesToMerge == boxesOf(detections, group)
             next == groupLoop(detections, groups, k + 1, acc, sameColor)
         IN  IF \E j \in 1..Len(group) : isUndefined(detections, group[j])
             THEN next
             ELSE IF Len(group) = 0
             THEN [thrown |-> TRUE, value |-> <<>>]
             ELSE IF sameColor
                     /\ \E j \in 1..Len(group) :
                            boxesToMerge[j].color # boxesToMerge[1].color
             THEN next
             ELSE groupLoop(detections, groups, k + 1,
                            [ newDetections |->
                                  Append(acc.newDetections,
                                         mergedDetection(boxesToMerge)),
                              processedIndices |->
                                  acc.processedIndices
                                      \cup indicesOf(group) ],
                            sameColor)

\* const newDetections = []; const processedIndices = new Set()
emptyAcc == [newDetections |-> <<>>, processedIndices |-> {}]

\* what AIService.consolidateDetections returns for an answer of the
\* service: the argument when the list or the groups are empty or when
\* anything throws
consolidated(detections, response) ==
    IF Len(detections) = 0 THEN detections
    ELSE IF ~response.ok THEN detections
    ELSE IF Len(response.groups) = 0 THEN detections
    ELSE LET r == groupLoop(detections, response.groups, 1, emptyAcc, TRUE)
         IN  IF r.thrown THEN detections ELSE r.value

----------------------------------------------------------------------------
(* State machine *)

\* no export call has been made
ExportNotStarted ==
    /\ exPc = "idle"
    /\ canvas = <<>>
    /\ drawImages = 0
    /\ ctx = FreshContext
    /\ exError = "none"
    /\ downloads = 0

\* the App as it is mounted, no request made
AppNotStarted ==
    /\ selectedFile = "null"
    /\ previewUrl = "null"
    /\ step = "upload"
    /\ appTextDetections = <<>>
    /\ error = "null"
    /\ isDecomposing = FALSE
    /\ isConsolidating = FALSE
    /\ requests = {}
    /\ nRequests = 0
    /\ appEvent = "none"
    /\ mergeInput = <<>>

\* no consolidateDetections call has been made
ServiceNotCalled ==
    /\ svcPc = "idle"
    /\ svcDetections = <<>>
    /\ svcResponse = [groups |-> <<>>]
    /\ svcResult = <<>>

Init ==
    /\ box_2d \in InitBoxes
    /\ renderedSize \in RenderedSizes
    /\ isBoundingBox \in BOOLEAN
    /\ onBoxChange \in {"undefined", "null", "fn"}
    /\ textIndex \in {"undefined", "0"}
    /\ onTextChange \in {"undefined", "null", "fn"}
    /\ isDragging = FALSE
    /\ isResizing = FALSE
    /\ dragStart = [x |-> 0, y |-> 0]
    /\ listening = FALSE
    /\ listeners = [mousemove |-> 0, mouseup |-> 0]
    /\ committed = <<>>
    /\ nCommits = 0
    /\ prevBox = <<>>
    /\ prevAnchor = [x |-> 0, y |-> 0]
    /\ lastEvent = "none"
    /\ nEvents = 0
    /\ mounted = TRUE
    /\ focused = FALSE
    /\ domText \in InitLabels
    /\ lastText = <<>>
    /\ nTextCommits = 0
    /\ lastPointer = [x |-> 0, y |-> 0]
    /\ gestureOffset = <<>>
    /\ ExportNotStarted
    /\ backgroundImage = [naturalWidth |-> 1000, naturalHeight |-> 1000]
    /\ textDetections = <<>>
    /\ exRenderedSize = [width |-> 0, height |-> 0]
    /\ ctxAvailable = TRUE
    /\ blobAvailable = TRUE
    /\ AppNotStarted
    /\ ServiceNotCalled

\* mousedown on the drag handle
handleDragMouseDown(p) ==
    /\ nEvents < MaxEvents
    /\ mounted
    /\ Rendered /\ isDraggable
    /\ nEvents' = nEvents + 1
    /\ IF ~GestureAllowed
       THEN /\ lastEvent' = "downIgnored"
            /\ UNCHANGED <<isDragging, isResizing, dragStart, listening,
                           listeners, lastPointer, gestureOffset>>
       ELSE /\ lastEvent' = "downMove"
            /\ isDragging' = TRUE
            /\ dragStart' = p
            /\ lastPointer' = p
            /\ gestureOffset' = offsetFrom(box_2d, p, renderedSize)
            /\ listening' = useEffect(TRUE, isResizing)
            /\ listeners' = effectRun(listeners, listening, TRUE, isResizing)
            /\ UNCHANGED isResizing
    /\ UNCHANGED <<box_2d, props, committed, nCommits, prevBox, prevAnchor>>
    /\ UNCHANGED <<mounted, textVars>>
    /\ UNCHANGED exportVars
    /\ UNCHANGED <<appVars, serviceVars>>

\* mousedown on the resize handle
handleResizeMouseDown(p) ==
    /\ nEvents < MaxEvents
    /\ mounted
    /\ Rendered /\ isDraggable
    /\ nEvents' = nEvents + 1
    /\ IF ~GestureAllowed
       THEN /\ lastEvent' = "downIgnored"
            /\ UNCHANGED <<isDragging, isResizing, dragStart, listening,
                           listeners, lastPointer, gestureOffset>>
       ELSE /\ lastEvent' = "downResize"
            /\ isResizing' = TRUE
            /\ dragStart' = p
            /\ lastPointer' = p
            /\ gestureOffset' = offsetFrom(box_2d, p, renderedSize)
            /\ listening' = useEffect(isDragging, TRUE)
            /\ listeners' = effectRun(listeners, listening, isDragging, TRUE)
            /\ UNCHANGED isDragging
    /\ UNCHANGED <<box_2d, props, committed, nCommits, prevBox, prevAnchor>>
    /\ UNCHANGED <<mounted, textVars>>
    /\ UNCHANGED exportVars
    /\ UNCHANGED <<appVars, serviceVars>>

\* a pointer-move that leaves the anchor where it was
handleMouseMoveKeepsAnchor(p) ==
    /\ nEvents < MaxEvents
    /\ mounted
    /\ listening
    /\ nEvents' = nEvents + 1
    /\ IF (~isDragging /\ ~isResizing) \/ onBoxChange # "fn"
          \/ textIndex = "undefined"
       THEN /\ lastEvent' = "moveIgnored"
            /\ UNCHANGED <<box_2d, committed, nCommits, dragStart,
                           prevBox, prevAnchor, listening, listeners,
                           lastPointer, gestureOffset>>
       ELSE LET deltaX == pointerDelta(p.x, dragStart.x)
                deltaY == pointerDelta(p.y, dragStart.y)
                dx == normalizedDelta(deltaX, renderedSize.width)
                dy == normalizedDelta(deltaY, renderedSize.height)
                newBox == IF isDragging THEN MoveBox(box_2d, dx, dy)
                                        ELSE ResizeBox(box_2d, dx, dy)
            IN  /\ committed' = newBox
                /\ nCommits' = nCommits + 1
                /\ box_2d' = StoreBox(newBox)
                /\ prevBox' = box_2d
                /\ prevAnchor' = dragStart
                /\ lastEvent' = IF isDragging THEN "moveStep" ELSE "resizeStep"
                /\ dragStart' = dragStart
                /\ lastPointer' = p
                /\ gestureOffset' =
                       IF isDragging /\ shiftStaysInUnit(box_2d, dx, dy)
                       THEN gestureOffset ELSE <<>>
                /\ listening' = useEffect(isDragging, isResizing)
                /\ listeners' = effectRun(listeners, listening,
                                          isDragging, isResizing)
    /\ UNCHANGED <<props, isDragging, isResizing>>
    /\ UNCHANGED <<mounted, textVars>>
    /\ UNCHANGED exportVars
    /\ UNCHANGED <<appVars, serviceVars>>

\* document mousemove
handleMouseMove(p) ==
    /\ nEvents < MaxEvents
    /\ mounted
    /\ listening
    /\ nEvents' = nEvents + 1
    /\ IF (~isDragging /\ ~isResizing) \/ onBoxChange # "fn"
          \/ textIndex = "undefined"
       THEN /\ lastEvent' = "moveIgnored"
            /\ UNCHANGED <<box_2d, committed, nCommits, dragStart,
                           prevBox, prevAnchor, listening, listeners,
                           lastPointer, gestureOffset>>
       ELSE LET deltaX == pointerDelta(p.x, dragStart.x)
                deltaY == pointerDelta(p.y, dragStart.y)
                dx == normalizedDelta(deltaX, renderedSize.width)
                dy == normalizedDelta(deltaY, renderedSize.height)
                newBox == IF isDragging THEN MoveBox(box_2d, dx, dy)
                                        ELSE ResizeBox(box_2d, dx, dy)
            IN  /\ committed' = newBox
                /\ nCommits' = nCommits + 1
                /\ box_2d' = StoreBox(newBox)
                /\ prevBox' = box_2d
                /\ prevAnchor' = dragStart
                /\ lastEvent' = IF isDragging THEN "moveStep" ELSE "resizeStep"
                /\ dragStart' = p
                /\ lastPointer' = p
                /\ gestureOffset' =
                       IF isDragging /\ shiftStaysInUnit(box_2d, dx, dy)
                       THEN gestureOffset ELSE <<>>
                /\ listening' = useEffect(isDragging, isResizing)
                /\ listeners' = effectRun(listeners, listening,
                                          isDragging, isResizing)
    /\ UNCHANGED <<props, isDragging, isResizing>>
    /\ UNCHANGED <<mounted, textVars>>
    /\ UNCHANGED exportVars
    /\ UNCHANGED <<appVars, serviceVars>>

\* a mouseup that clears isDragging only
handleMouseUpKeepsResizing ==
    /\ nEvents < MaxEvents
    /\ mounted
    /\ listening
    /\ nEvents' = nEvents + 1
    /\ isDragging' = FALSE
    /\ listening' = useEffect(FALSE, isResizing)
    /\ listeners' = effectRun(listeners, listening, FALSE, isResizing)
    /\ lastEvent' = "up"
    /\ UNCHANGED <<box_2d, props, isResizing, dragStart, committed, nCommits,
                   prevBox, prevAnchor, lastPointer, gestureOffset>>
    /\ UNCHANGED <<mounted, textVars>>
    /\ UNCHANGED exportVars
    /\ UNCHANGED <<appVars, serviceVars>>

\* document mouseup
handleMouseUp ==
    /\ nEvents < MaxEvents
    /\ mounted
    /\ listening
    /\ nEvents' = nEvents + 1
    /\ isDragging' = FALSE
    /\ isResizing' = FALSE
    /\ listening' = useEffect(FALSE, FALSE)
    /\ listeners' = effectRun(listeners, listening, FALSE, FALSE)
    /\ lastEvent' = "up"
    /\ UNCHANGED <<box_2d, props, dragStart, committed, nCommits,
                   prevBox, prevAnchor, lastPointer, gestureOffset>>
    /\ UNCHANGED <<mounted, textVars>>
    /\ UNCHANGED exportVars
    /\ UNCHANGED <<appVars, serviceVars>>

\* a blur handler that drops the line breaks of the text
handleTextEditDropsNewlines ==
    IF onTextChange = "fn" /\ textIndex # "undefined"
    THEN /\ lastText' = <<textIndex, SelectSeq(domText, LAMBDA c : c # "\n")>>
         /\ nTextCommits' = nTextCommits + 1
    ELSE UNCHANGED <<lastText, nTextCommits>>

\* the onBlur handler: onTextChange(textIndex, e.target.innerText)
handleTextEdit ==
    IF onTextChange = "fn" /\ textIndex # "undefined"
    THEN /\ lastText' = <<textIndex, domText>>
         /\ nTextCommits' = nTextCommits + 1
    ELSE UNCHANGED <<lastText, nTextCommits>>

\* a click on the place of the region: an editable region takes the focus;
\* a region that draws nothing, a detection-only box (pointer-events-none)
\* or a region that is not contentEditable gets nothing
click ==
    /\ nEvents < MaxEvents
    /\ mounted
    /\ ~focused
    /\ nEvents' = nEvents + 1
    /\ IF Rendered /\ isEditable
       THEN focused' = TRUE /\ lastEvent' = "focus"
       ELSE focused' = focused /\ lastEvent' = "clickIgnored"
    /\ UNCHANGED <<box_2d, props, gestureVars, mounted, domText, lastText,
                   nTextCommits>>
    /\ UNCHANGED exportVars
    /\ UNCHANGED <<appVars, serviceVars>>

\* the focus leaves the element: the blur event
blur ==
    /\ nEvents < MaxEvents
    /\ mounted
    /\ focused
    /\ nEvents' = nEvents + 1
    /\ handleTextEdit
    /\ focused' = FALSE
    /\ lastEvent' = "blur"
    /\ UNCHANGED <<box_2d, props, gestureVars, mounted, domText>>
    /\ UNCHANGED exportVars
    /\ UNCHANGED <<appVars, serviceVars>>

\* a keydown handler that does not look at shiftKey
handleKeyDownIgnoresShift(key, shiftKey) ==
    /\ nEvents < MaxEvents
    /\ mounted
    /\ focused
    /\ nEvents' = nEvents + 1
    /\ lastEvent' = IF key # "Enter" THEN "key"
                    ELSE IF shiftKey THEN "shiftEnter" ELSE "enter"
    /\ IF key = "Enter"
       THEN /\ domText' = domText
            /\ handleTextEdit
            /\ focused' = FALSE
       ELSE /\ domText' = Append(domText, key)
            /\ UNCHANGED <<focused, lastText, nTextCommits>>
    /\ UNCHANGED <<box_2d, props, gestureVars, mounted>>
    /\ UNCHANGED exportVars
    /\ UNCHANGED <<appVars, serviceVars>>

\* keydown in the focused element.  Enter without Shift: preventDefault and
\* blur(), whose blur event runs handleTextEdit.  Any other key: the default
\* action inserts the character (a line break for Shift+Enter).
handleKeyDown(key, shiftKey) ==
    /\ nEvents < MaxEvents
    /\ mounted
    /\ focused
    /\ nEvents' = nEvents + 1
    /\ lastEvent' = IF key # "Enter" THEN "key"
                    ELSE IF shiftKey THEN "shiftEnter" ELSE "enter"
    /\ IF key = "Enter" /\ ~shiftKey
       THEN /\ domText' = domText
            /\ handleTextEdit
            /\ focused' = FALSE
       ELSE /\ domText' = Append(domText, IF key = "Enter" THEN "\n" ELSE key)
            /\ UNCHANGED <<focused, lastText, nTextCommits>>
    /\ UNCHANGED <<box_2d, props, gestureVars, mounted>>
    /\ UNCHANGED exportVars
    /\ UNCHANGED <<appVars, serviceVars>>

\* the component is removed: the effect's cleanup runs
unmount ==
    /\ mounted
    /\ mounted' = FALSE
    /\ listening' = FALSE
    /\ listeners' = effectCleanup(listeners, listening)
    /\ lastEvent' = "unmount"
    /\ UNCHANGED <<box_2d, props, isDragging, isResizing, dragStart,
                   committed, nCommits, prevBox, prevAnchor, nEvents,
                   textVars, lastPointer, gestureOffset>>
    /\ UNCHANGED exportVars
    /\ UNCHANGED <<appVars, serviceVars>>

Next ==
    \/ \E p \in Pointers : handleDragMouseDown(p)
    \/ \E p \in Pointers : handleResizeMouseDown(p)
    \/ \E p \in Pointers : handleMouseMove(p)
    \/ handleMouseUp
    \/ click
    \/ blur
    \/ \E key \in Keys, shiftKey \in BOOLEAN : handleKeyDown(key, shiftKey)
    \/ unmount

Spec == Init /\ [][Next]_vars

----------------------------------------------------------------------------
(* State machine of one export call *)

InitExport ==
    /\ box_2d = <<>>
    /\ renderedSize = [width |-> 0, height |-> 0]
    /\ isBoundingBox = FALSE
    /\ onBoxChange = "undefined"
    /\ textIndex = "undefined"
    /\ onTextChange = "undefined"
    /\ isDragging = FALSE
    /\ isResizing = FALSE
    /\ dragStart = [x |-> 0, y |-> 0]
    /\ listening = FALSE
    /\ listeners = [mousemove |-> 0, mouseup |-> 0]
    /\ committed = <<>>
    /\ nCommits = 0
    /\ prevBox = <<>>
    /\ prevAnchor = [x |-> 0, y |-> 0]
    /\ lastEvent = "none"
    /\ nEvents = 0
    /\ mounted = FALSE
    /\ focused = FALSE
    /\ domText = <<>>
    /\ lastText = <<>>
    /\ nTextCommits = 0
    /\ lastPointer = [x |-> 0, y |-> 0]
    /\ gestureOffset = <<>>
    /\ ExportNotStarted
    /\ backgroundImage \in NaturalSizes
    /\ textDetections \in SeqsUpTo(Regions, MaxRegions)
    /\ exRenderedSize \in
           { [width |-> w, height |-> w] : w \in ExportRenderedWidths }
    /\ ctxAvailable \in BOOLEAN
    /\ blobAvailable \in BOOLEAN
    /\ AppNotStarted
    /\ ServiceNotCalled

\* an export that draws the background before it tests the context
downloadCompositeDrawsBeforeTest ==
    /\ exPc = "idle"
    /\ IF ~ctxAvailable
       THEN /\ exPc' = "failed"
            /\ exError' = "Could not get canvas context"
            /\ drawImages' = drawImages + 1
            /\ UNCHANGED <<canvas, ctx>>
       ELSE LET drawn == drawDetections(backgroundImage, textDetections,
                                       exRenderedSize.width)
            IN  /\ canvas' = [width |-> backgroundImage.naturalWidth,
                              height |-> backgroundImage.naturalHeight]
                /\ drawImages' = drawImages + 1
                /\ ctx' = drawn
                /\ exPc' = IF drawn.thrown THEN "failed" ELSE "toBlob"
                /\ exError' = IF drawn.thrown THEN "TypeError" ELSE "none"
    /\ UNCHANGED <<exportInputs, downloads>>
    /\ UNCHANGED overlayVars
    /\ UNCHANGED <<appVars, serviceVars>>

\* downloadComposite up to the await: the context, the canvas size, the
\* background and every detection; then toBlob is pending
downloadComposite ==
    /\ exPc = "idle"
    /\ IF ~ctxAvailable
       THEN /\ exPc' = "failed"
            /\ exError' = "Could not get canvas context"
            /\ UNCHANGED <<canvas, drawImages, ctx>>
       ELSE LET drawn == drawDetections(backgroundImage, textDetections,
                                       exRenderedSize.width)
            IN  /\ canvas' = [width |-> backgroundImage.naturalWidth,
                              height |-> backgroundImage.naturalHeight]
                /\ drawImages' = drawImages + 1
                /\ ctx' = drawn
                /\ exPc' = IF drawn.thrown THEN "failed" ELSE "toBlob"
                /\ exError' = IF drawn.thrown THEN "TypeError" ELSE "none"
    /\ UNCHANGED <<exportInputs, downloads>>
    /\ UNCHANGED overlayVars
    /\ UNCHANGED <<appVars, serviceVars>>

\* a toBlob callback that clicks the link before it tests the blob
triggerDownloadBeforeTest ==
    /\ exPc = "toBlob"
    /\ downloads' = downloads + 1
    /\ IF ~blobAvailable
       THEN /\ exPc' = "failed"
            /\ exError' = "Failed to create blob from canvas"
       ELSE /\ exPc' = "resolved"
            /\ UNCHANGED exError
    /\ UNCHANGED <<exportInputs, canvas, drawImages, ctx>>
    /\ UNCHANGED overlayVars
    /\ UNCHANGED <<appVars, serviceVars>>

\* the toBlob callback of triggerDownload
triggerDownload ==
    /\ exPc = "toBlob"
    /\ IF ~blobAvailable
       THEN /\ exPc' = "failed"
            /\ exError' = "Failed to create blob from canvas"
            /\ UNCHANGED downloads
       ELSE /\ exPc' = "resolved"
            /\ downloads' = downloads + 1
            /\ UNCHANGED exError
    /\ UNCHANGED <<exportInputs, canvas, drawImages, ctx>>
    /\ UNCHANGED overlayVars
    /\ UNCHANGED <<appVars, serviceVars>>

\* getCompositeCanvas: the same drawing, the canvas is the result
getCompositeCanvas ==
    /\ exPc = "idle"
    /\ IF ~ctxAvailable
       THEN /\ exPc' = "failed"
            /\ exError' = "Could not get canvas context"
            /\ UNCHANGED <<canvas, drawImages, ctx>>
       ELSE LET drawn == drawDetections(backgroundImage, textDetections,
                                       exRenderedSize.width)
            IN  /\ canvas' = [width |-> backgroundImage.naturalWidth,
                              height |-> backgroundImage.naturalHeight]
                /\ drawImages' = drawImages + 1
                /\ ctx' = drawn
                /\ exPc' = IF drawn.thrown THEN "failed" ELSE "canvas"
                /\ exError' = IF drawn.thrown THEN "TypeError" ELSE "none"
    /\ UNCHANGED <<exportInputs, downloads>>
    /\ UNCHANGED overlayVars
    /\ UNCHANGED <<appVars, serviceVars>>

NextExport ==
    \/ downloadComposite
    \/ triggerDownload
    \/ getCompositeCanvas

SpecExport == InitExport /\ [][NextExport]_vars

----------------------------------------------------------------------------
(* State machine of one AIService.consolidateDetections call *)

\* no overlay region is mounted
OverlayUnmounted ==
    /\ box_2d = <<>>
    /\ renderedSize = [width |-> 0, height |-> 0]
    /\ isBoundingBox = FALSE
    /\ onBoxChange = "undefined"
    /\ textIndex = "undefined"
    /\ onTextChange = "undefined"
    /\ isDragging = FALSE
    /\ isResizing = FALSE
    /\ dragStart = [x |-> 0, y |-> 0]
    /\ listening = FALSE
    /\ listeners = [mousemove |-> 0, mouseup |-> 0]
    /\ committed = <<>>
    /\ nCommits = 0
    /\ prevBox = <<>>
    /\ prevAnchor = [x |-> 0, y |-> 0]
    /\ lastEvent = "none"
    /\ nEvents = 0
    /\ mounted = FALSE
    /\ focused = FALSE
    /\ domText = <<>>
    /\ lastText = <<>>
    /\ nTextCommits = 0
    /\ lastPointer = [x |-> 0, y |-> 0]
    /\ gestureOffset = <<>>

\* no export call is made
ExportAtRest ==
    /\ ExportNotStarted
    /\ backgroundImage = [naturalWidth |-> 1000, naturalHeight |-> 1000]
    /\ textDetections = <<>>
    /\ exRenderedSize = [width |-> 0, height |-> 0]
    /\ ctxAvailable = TRUE
    /\ blobAvailable = TRUE

InitService ==
    /\ OverlayUnmounted
    /\ ExportAtRest
    /\ AppNotStarted
    /\ svcPc = "idle"
    /\ svcDetections \in SeqsUpTo(Detections, MaxDetections)
    /\ svcResponse \in Responses
    /\ svcResult = <<>>

\* consolidateDetections(detections, file): the request to the external
\* service and the merge of its groups
consolidateDetections ==
    /\ svcPc = "idle"
    /\ svcPc' = "returned"
    /\ svcResult' = consolidated(svcDetections, svcResponse)
    /\ UNCHANGED <<svcDetections, svcResponse>>
    /\ UNCHANGED <<overlayVars, exportVars, appVars>>

NextService == consolidateDetections

SpecService == InitService /\ [][NextService]_vars

----------------------------------------------------------------------------
(* State machine of the App component (App.tsx).  An async handler runs    *)
(* up to its first await when the button is clicked and leaves a request;  *)
(* the request settles in a later step, with the values the handler        *)
(* captured when it was called.  The segmentation request of handleSubmit  *)
(* touches none of the state below and is left out.                        *)

MaxRequests == 3

\* files the user can choose
Files == {"f1"}

\* Results of the detection service: non-empty lists (an empty result is
\* thrown as an error by runTextDetection), from top to bottom
DetectionResults ==
    { q \in SeqsUpTo(Detections, MaxDetections) :
        /\ Len(q) >= 1
        /\ \A i \in 1..(Len(q) - 1) : q[i].box_2d[1] < q[i + 1].box_2d[1] }

\* isConsolidating || isDecomposing
anyProcessRunning == isConsolidating \/ isDecomposing

\* the state updates of handleReset, lines 173-194
resetState ==
    /\ selectedFile' = "null"
    /\ previewUrl' = "null"
    /\ step' = "upload"
    /\ appTextDetections' = <<>>
    /\ error' = "null"
    /\ isDecomposing' = FALSE
    /\ isConsolidating' = FALSE

\* click on "Remove image" or "Start Over"
handleReset ==
    /\ selectedFile # "null"
    /\ resetState
    /\ appEvent' = "reset"
    /\ UNCHANGED <<requests, nRequests, mergeInput>>
    /\ UNCHANGED <<overlayVars, exportVars, serviceVars>>

\* an image file is chosen in the file input, which is shown while no
\* file is selected: handleReset(), then setSelectedFile and setPreviewUrl
handleFileChange(file) ==
    /\ selectedFile = "null"
    /\ selectedFile' = file
    /\ previewUrl' = "blob:"
    /\ step' = "upload"
    /\ appTextDetections' = <<>>
    /\ error' = "null"
    /\ isDecomposing' = FALSE
    /\ isConsolidating' = FALSE
    /\ appEvent' = "fileChange"
    /\ UNCHANGED <<requests, nRequests, mergeInput>>
    /\ UNCHANGED <<overlayVars, exportVars, serviceVars>>

\* click on "Submit" (step upload) or "Re-run Detection" (step result)
handleSubmit ==
    /\ nRequests < MaxRequests
    /\ selectedFile # "null"
    /\ step = "upload" \/ (step = "result" /\ ~anyProcessRunning)
    /\ step' = "processing"
    /\ error' = "null"
    /\ appTextDetections' = <<>>
    /\ nRequests' = nRequests + 1
    /\ requests' = requests \cup
           { [ id |-> nRequests + 1, kind |-> "submit", stage |-> "detect",
               detections |-> <<>> ] }
    /\ appEvent' = "submit"
    /\ UNCHANGED <<selectedFile, previewUrl, isDecomposing, isConsolidating,
                   mergeInput>>
    /\ UNCHANGED <<overlayVars, exportVars, serviceVars>>

\* handleSubmit after Promise.allSettled: the detection was fulfilled with
\* a list or rejected
submitSettles(r, fulfilled, value) ==
    /\ r \in requests /\ r.kind = "submit"
    /\ requests' = requests \ {r}
    /\ IF fulfilled
       THEN /\ appTextDetections' = value
            /\ step' = "result"
            /\ appEvent' = "detected"
            /\ UNCHANGED error
       ELSE /\ error' = "An error occurred while detecting text"
            /\ step' = "upload"
            /\ appEvent' = "detectionFailed"
            /\ UNCHANGED appTextDetections
    /\ UNCHANGED <<selectedFile, previewUrl, isDecomposing, isConsolidating,
                   nRequests, mergeInput>>
    /\ UNCHANGED <<overlayVars, exportVars, serviceVars>>

\* click on "Consolidate Text": enabled in step result with at least two
\* detections and no process running
handleConsolidate ==
    /\ nRequests < MaxRequests
    /\ selectedFile # "null"
    /\ step = "result"
    /\ ~anyProcessRunning
    /\ Len(appTextDetections) >= 2
    /\ isConsolidating' = TRUE
    /\ error' = "null"
    /\ nRequests' = nRequests + 1
    /\ requests' = requests \cup
           { [ id |-> nRequests + 1, kind |-> "consolidate",
               stage |-> "groups", detections |-> appTextDetections ] }
    /\ appEvent' = "consolidate"
    /\ UNCHANGED <<selectedFile, previewUrl, step, appTextDetections,
                   isDecomposing, mergeInput>>
    /\ UNCHANGED <<overlayVars, exportVars, serviceVars>>

\* handleConsolidate after the await: the answer of the service, the merge
\* of lines 393-424 on the detections the handler was called with, catch
\* and finally
consolidateSettles(r, response) ==
    /\ r \in requests /\ r.kind = "consolidate"
    /\ requests' = requests \ {r}
    /\ isConsolidating' = FALSE
    /\ IF ~response.ok
       THEN /\ error' = "An error occurred during consolidation"
            /\ appEvent' = "consolidationFailed"
            /\ UNCHANGED <<appTextDetections, mergeInput>>
       ELSE IF Len(response.groups) = 0
       THEN /\ appEvent' = "noGroups"
            /\ UNCHANGED <<appTextDetections, mergeInput, error>>
       ELSE LET merged == groupLoop(r.detections, response.groups, 1,
                                    emptyAcc, FALSE)
            IN  IF merged.thrown
                THEN /\ error' = "An error occurred during consolidation"
                     /\ appEvent' = "consolidationFailed"
                     /\ UNCHANGED <<appTextDetections, mergeInput>>
                ELSE /\ appTextDetections' = merged.value
                     /\ mergeInput' = r.detections
                     /\ appEvent' = "consolidated"
                     /\ UNCHANGED error
    /\ UNCHANGED <<selectedFile, previewUrl, step, isDecomposing, nRequests>>
    /\ UNCHANGED <<overlayVars, exportVars, serviceVars>>

\* textDetections.every(d => d.fontSize !== undefined)
hasProperties(detections) ==
    \A i \in 1..Len(detections) : detections[i].fontSize # 0

\* {...detection, ...allProperties[index]}: the font properties the
\* service found are added to each detection
withProperties(detections) ==
    [ i \in 1..Len(detections) |-> [detections[i] EXCEPT !.fontSize = 12] ]

\* click on "Decompose": enabled in step result with no process running
handleDecompose ==
    /\ nRequests < MaxRequests
    /\ selectedFile # "null"
    /\ step = "result"
    /\ ~anyProcessRunning
    /\ IF Len(appTextDetections) = 0
       THEN /\ error' = "No text was detected to decompose."
            /\ appEvent' = "decomposeRefused"
            /\ UNCHANGED <<isDecomposing, requests, nRequests>>
       ELSE /\ isDecomposing' = TRUE
            /\ error' = "null"
            /\ nRequests' = nRequests + 1
            /\ requests' = requests \cup
                   { [ id |-> nRequests + 1, kind |-> "decompose",
                       stage |-> IF ~hasProperties(appTextDetections)
                                     /\ previewUrl # "null"
                                 THEN "properties" ELSE "edit",
                       detections |-> appTextDetections ] }
            /\ appEvent' = "decompose"
    /\ UNCHANGED <<selectedFile, previewUrl, step, appTextDetections,
                   isConsolidating, mergeInput>>
    /\ UNCHANGED <<overlayVars, exportVars, serviceVars>>

\* handleDecompose after Promise.all(propertyPromises): the detections
\* with their properties are stored and the edit request is made; a
\* failure goes to catch and finally
propertiesSettle(r, ok) ==
    /\ r \in requests /\ r.kind = "decompose" /\ r.stage = "properties"
    /\ IF ok
       THEN /\ appTextDetections' = withProperties(r.detections)
            /\ requests' = (requests \ {r}) \cup
                   { [r EXCEPT !.stage = "edit",
                               !.detections = withProperties(r.detections)] }
            /\ appEvent' = "properties"
            /\ UNCHANGED <<step, error, isDecomposing>>
       ELSE /\ error' = "An error occurred during decomposition"
            /\ step' = "result"
            /\ isDecomposing' = FALSE
            /\ requests' = requests \ {r}
            /\ appEvent' = "decomposeFailed"
            /\ UNCHANGED appTextDetections
    /\ UNCHANGED <<selectedFile, previewUrl, isConsolidating, nRequests,
                   mergeInput>>
    /\ UNCHANGED <<overlayVars, exportVars, serviceVars>>

\* handleDecompose after the edit request: an image was returned
\* ("image"), none was ("noImage"), or the request failed ("error")
editSettles(r, outcome) ==
    /\ r \in requests /\ r.kind = "decompose" /\ r.stage = "edit"
    /\ requests' = requests \ {r}
    /\ isDecomposing' = FALSE
    /\ IF outcome = "image"
       THEN /\ previewUrl' = "data:"
            /\ step' = "recomposed"
            /\ appEvent' = "recomposed"
            /\ UNCHANGED error
       ELSE /\ error' = IF outcome = "noImage"
                        THEN "Decomposition failed"
                        ELSE "An error occurred during decomposition"
            /\ step' = "result"
            /\ appEvent' = "decomposeFailed"
            /\ UNCHANGED previewUrl
    /\ UNCHANGED <<selectedFile, appTextDetections, isConsolidating,
                   nRequests, mergeInput>>
    /\ UNCHANGED <<overlayVars, exportVars, serviceVars>>

InitApp ==
    /\ OverlayUnmounted
    /\ ExportAtRest
    /\ ServiceNotCalled
    /\ AppNotStarted

NextApp ==
    \/ handleReset
    \/ \E file \in Files : handleFileChange(file)
    \/ handleSubmit
    \/ \E r \in requests : \E value \in DetectionResults :
           submitSettles(r, TRUE, value)
    \/ \E r \in requests : submitSettles(r, FALSE, <<>>)
    \/ handleConsolidate
    \/ \E r \in requests : \E response \in Responses :
           consolidateSettles(r, response)
    \/ handleDecompose
    \/ \E r \in requests : \E ok \in BOOLEAN : propertiesSettle(r, ok)
    \/ \E r \in requests : \E outcome \in {"image", "noImage", "error"} :
           editSettles(r, outcome)

SpecApp == InitApp /\ [][NextApp]_vars

----------------------------------------------------------------------------
(* Properties of the committed boxes *)

InUnit(v) == 0 <= v /\ v <= One
Idle == ~isDragging /\ ~isResizing
Committing == lastEvent \in {"moveStep", "resizeStep"}

\* pixel deltas of the last handled pointer-move
lastDeltaX == dragStart.x - prevAnchor.x
lastDeltaY == dragStart.y - prevAnchor.y

\* C1: every box committed through onBoxChange has all four coordinates
\* in [0,1]; a resize never commits yMax or xMax greater than 1.
C1_CommittedInUnitRange ==
    committed # <<>> => \A i \in 1..4 : InUnit(committed[i])

\* C2: an edit of a box whose width and height are at least 0.05 commits
\* a box whose width and height are at least 0.05.
C2_MinimumSizeKept ==
    (Committing /\ prevBox[3] - prevBox[1] >= MinSize
                /\ prevBox[4] - prevBox[2] >= MinSize)
        => (/\ committed[3] - committed[1] >= MinSize
            /\ committed[4] - committed[2] >= MinSize)

\* C3: if yMin <= yMax and xMin <= xMax hold for the region's box before
\* a pointer-move, they hold for the box passed to onBoxChange, for moving
\* and for resizing.
C3_OrderingKept ==
    (Committing /\ prevBox[1] <= prevBox[3] /\ prevBox[2] <= prevBox[4])
        => (committed[1] <= committed[3] /\ committed[2] <= committed[4])

\* a move was clamped at an edge and the committed box is still ordered
C3_Witness ==
    /\ lastEvent = "moveStep"
    /\ committed # prevBox
    /\ committed[2] = 0
    /\ committed[1] < committed[3]

\* C4: moving [0.5,0.5,0.6,0.6] by the normalized delta dx = -10, dy = 0
\* commits xMin = 0 and xMax = 0.1.
C4_WidthPreservedAtLeftEdge ==
    (/\ lastEvent = "moveStep"
     /\ prevBox = <<One \div 2, One \div 2, (6 * One) \div 10, (6 * One) \div 10>>
     /\ lastDeltaX = -10 * renderedSize.width
     /\ lastDeltaY = 0)
        => (committed[2] = 0 /\ committed[4] = One \div 10)

\* C5: a move step with zero delta commits the region's current box, for
\* every box whose coordinates are in [0,1].
C5_ZeroDeltaMoveIsIdentity ==
    (/\ lastEvent = "moveStep"
     /\ lastDeltaX = 0 /\ lastDeltaY = 0
     /\ \A i \in 1..4 : InUnit(prevBox[i]))
        => committed = prevBox

\* a pointer-move at the anchor was handled in the moving state
C5_Witness ==
    /\ lastEvent = "moveStep"
    /\ lastDeltaX = 0 /\ lastDeltaY = 0
    /\ \A i \in 1..4 : InUnit(prevBox[i])
    /\ dragStart.x # 0

\* C6: a resize step commits yMax >= yMin + 0.05 and xMax >= xMin + 0.05,
\* for every box and every pointer delta.
C6_ResizeFloor ==
    lastEvent = "resizeStep"
        => (/\ committed[3] >= committed[1] + MinSize
            /\ committed[4] >= committed[2] + MinSize)

\* [0.2,0.2,0.3,0.3] resized by dx = dy = -100 stops at 0.25
C6_Witness ==
    /\ lastEvent = "resizeStep"
    /\ prevBox = <<One \div 5, One \div 5, (3 * One) \div 10, (3 * One) \div 10>>
    /\ lastDeltaX = -100 * renderedSize.width
    /\ lastDeltaY = -100 * renderedSize.height
    /\ committed[3] = One \div 4 /\ committed[4] = One \div 4

\* C7: a resize step commits the yMin and xMin the region's box had
\* before the pointer-move.
C7_ResizeKeepsOrigin ==
    lastEvent = "resizeStep"
        => (committed[1] = prevBox[1] /\ committed[2] = prevBox[2])

\* a resize that did change yMax and xMax
C7_Witness ==
    /\ lastEvent = "resizeStep"
    /\ lastDeltaX # 0 /\ lastDeltaY # 0
    /\ committed[3] # prevBox[3] /\ committed[4] # prevBox[4]

\* no coordinate of the last move left [0,1] before clamping
NotClamped ==
    /\ \A i \in {2, 4} :
         /\ 0 <= prevBox[i] * renderedSize.width + lastDeltaX * One
         /\ prevBox[i] * renderedSize.width + lastDeltaX * One
               <= One * renderedSize.width
    /\ \A i \in {1, 3} :
         /\ 0 <= prevBox[i] * renderedSize.height + lastDeltaY * One
         /\ prevBox[i] * renderedSize.height + lastDeltaY * One
               <= One * renderedSize.height

\* C8: in the moving state a pointer-move from the anchor (ax,ay) to
\* (px,py) commits the box with both x coordinates shifted by
\* (px-ax)/renderedSize.width and both y coordinates shifted by
\* (py-ay)/renderedSize.height whenever no coordinate is clamped.
C8_MoveShiftsByNormalizedDelta ==
    (lastEvent = "moveStep" /\ NotClamped)
        => (/\ \A i \in {2, 4} :
                 (committed[i] - prevBox[i]) * renderedSize.width
                     = lastDeltaX * One
            /\ \A i \in {1, 3} :
                 (committed[i] - prevBox[i]) * renderedSize.height
                     = lastDeltaY * One)

\* pointer-down at (100,100), pointer-move to (110,115) over 500x500:
\* a shift of (+0.02, +0.03)
C8_Witness ==
    /\ lastEvent = "moveStep"
    /\ renderedSize = [width |-> 500, height |-> 500]
    /\ prevAnchor = [x |-> 100, y |-> 100]
    /\ dragStart = [x |-> 110, y |-> 115]
    /\ NotClamped
    /\ committed[2] - prevBox[2] = (2 * One) \div 100
    /\ committed[1] - prevBox[1] = (3 * One) \div 100

\* C9: a region that is a detection-only bounding box, or that has no
\* onBoxChange callback, never leaves idle, records no anchor and commits
\* nothing.
C9_NoGestureWithoutPreconditions ==
    (isBoundingBox \/ onBoxChange # "fn")
        => (/\ Idle
            /\ dragStart = [x |-> 0, y |-> 0]
            /\ nCommits = 0
            /\ committed = <<>>)

\* a pointer-down reached a handle of a region without a callback
C9_Witness ==
    /\ lastEvent = "downIgnored"
    /\ onBoxChange # "fn"
    /\ Idle

\* C10: a pointer release always leads to idle, and from idle no box is
\* committed by any step (the next commit needs a new pointer-down).
C10_ReleaseLeadsToIdle ==
    /\ [](lastEvent = "up" => Idle)
    /\ [][Idle => (nCommits' = nCommits /\ committed' = committed)]_vars

\* a release after a gesture that committed boxes
C10_Witness ==
    /\ lastEvent = "up"
    /\ nCommits > 0
    /\ Idle

----------------------------------------------------------------------------
(* Properties of the gesture state, the listeners and the text edits *)

\* C11: isDragging and isResizing are never both true.
C11_AtMostOneGesture ==
    ~(isDragging /\ isResizing)

\* C12: while mounted, exactly one mousemove and one mouseup listener are
\* registered in a non-idle state and none in the idle state; none remain
\* after teardown.
C12_ListenersExactlyWhileActive ==
    /\ mounted => listeners = IF Idle
                              THEN [mousemove |-> 0, mouseup |-> 0]
                              ELSE [mousemove |-> 1, mouseup |-> 1]
    /\ ~mounted => listeners = [mousemove |-> 0, mouseup |-> 0]

\* the listeners were registered again after two anchor updates
C12_Witness ==
    /\ mounted
    /\ nCommits >= 2
    /\ ~Idle
    /\ listeners = [mousemove |-> 1, mouseup |-> 1]

\* C13: a detection-only bounding box never invokes onTextChange or
\* onBoxChange and never leaves idle, even with both callbacks and a
\* textIndex supplied.
C13_BoundingBoxIgnoresInput ==
    isBoundingBox
        => (/\ Idle
            /\ ~focused
            /\ nCommits = 0 /\ committed = <<>>
            /\ nTextCommits = 0 /\ lastText = <<>>)

\* a click reached a drawn bounding box that has both callbacks
C13_Witness ==
    /\ isBoundingBox
    /\ Rendered
    /\ onBoxChange = "fn" /\ onTextChange = "fn" /\ textIndex = "0"
    /\ lastEvent = "clickIgnored"

\* a step in which the element loses the focus
LosesFocus == focused /\ ~focused' /\ mounted'

\* the blur commit: one onTextChange call with textIndex and the text as
\* it is, no onBoxChange call, no change of the gesture state
CommitsTextOnce ==
    /\ nTextCommits' = nTextCommits + 1
    /\ lastText' = <<textIndex, domText>>
    /\ domText' = domText
    /\ UNCHANGED <<nCommits, committed, isDragging, isResizing, dragStart>>

\* C14 as stated: whenever an editable region loses the focus,
\* onTextChange is invoked exactly once with textIndex and the text
\* unchanged, onBoxChange is not invoked and the gesture state is kept.
C14_BlurCommitsOnce ==
    [][(LosesFocus /\ isEditable) => CommitsTextOnce]_vars

\* C14 amended: the same for an editable region whose onTextChange is a
\* function and whose textIndex is supplied.
C14_BlurCommitsOnceWithIndex ==
    [][(LosesFocus /\ isEditable /\ onTextChange = "fn"
            /\ textIndex # "undefined")
         => CommitsTextOnce]_vars

\* a text with a line break was committed by a blur during a gesture
C14_Witness ==
    /\ lastEvent = "blur"
    /\ nTextCommits = 1
    /\ lastText = <<textIndex, domText>>
    /\ \E i \in 1..Len(domText) : domText[i] = "\n"
    /\ isDragging

\* Shift+Enter: the line break is inserted, the focus stays, nothing is
\* committed
ShiftEnterInsertsBreak ==
    /\ domText' = Append(domText, "\n")
    /\ focused'
    /\ UNCHANGED <<nTextCommits, lastText>>

\* C15 as stated: Enter without Shift inserts no newline, removes the
\* focus and commits the current text; Shift+Enter does none of these.
C15_EnterCommits ==
    [][/\ (lastEvent' = "enter" /\ nEvents' # nEvents)
            => (~focused' /\ CommitsTextOnce)
       /\ (lastEvent' = "shiftEnter" /\ nEvents' # nEvents)
            => ShiftEnterInsertsBreak]_vars

\* C15 amended: Enter without Shift inserts no newline and removes the
\* focus, and commits the current text when onTextChange is a function
\* and textIndex is supplied; Shift+Enter does none of these.
C15_EnterCommitsWithIndex ==
    [][/\ (lastEvent' = "enter" /\ nEvents' # nEvents)
            => (/\ ~focused'
                /\ domText' = domText
                /\ (onTextChange = "fn" /\ textIndex # "undefined")
                      => CommitsTextOnce)
       /\ (lastEvent' = "shiftEnter" /\ nEvents' # nEvents)
            => ShiftEnterInsertsBreak]_vars

\* Shift+Enter then Enter: the text with the inserted break was committed
C15_Witness ==
    /\ lastEvent = "enter"
    /\ ~focused
    /\ nTextCommits = 1
    /\ lastText = <<textIndex, domText>>
    /\ Len(domText) > 0
    /\ domText[Len(domText)] = "\n"

\* a box with 0 <= xMin <= xMax <= 1 and 0 <= yMin <= yMax <= 1
ValidBox(b) ==
    /\ Len(b) = 4
    /\ 0 <= b[1] /\ b[1] <= b[3] /\ b[3] <= One
    /\ 0 <= b[2] /\ b[2] <= b[4] /\ b[4] <= One

\* C16: for a valid box and a positive rendered size, the pixel rectangle
\* has left + width <= renderedSize.width, top + height <=
\* renderedSize.height and no negative component.
C16_PixelRectInsideImage ==
    (/\ ValidBox(box_2d)
     /\ renderedSize.width > 0 /\ renderedSize.height > 0)
        => (/\ render # <<>>
            /\ render.left + render.width <= renderedSize.width * One
            /\ render.top + render.height <= renderedSize.height * One
            /\ render.left >= 0 /\ render.top >= 0
            /\ render.width >= 0 /\ render.height >= 0)

\* a box moved against the right and bottom edges fills the image exactly
C16_Witness ==
    /\ lastEvent = "moveStep"
    /\ ValidBox(box_2d)
    /\ box_2d[3] = One /\ box_2d[4] = One
    /\ box_2d[1] < One /\ box_2d[2] < One
    /\ render.left + render.width = renderedSize.width * One

\* C17: with a zero rendered width or height, or a box that is missing or
\* has fewer than 4 components, nothing is drawn, no pixel rectangle is
\* computed and no pointer-move is ever handled (so no delta is divided by
\* a zero dimension).
C17_NothingDrawnWhenDegenerate ==
    (renderedSize.width = 0 \/ renderedSize.height = 0 \/ Len(box_2d) < 4)
        => (/\ render = <<>>
            /\ Idle /\ ~listening
            /\ nCommits = 0
            /\ ~focused)

\* a click on the place of a region of zero height that has all callbacks
C17_Witness ==
    /\ renderedSize.height = 0
    /\ Len(box_2d) = 4
    /\ ~isBoundingBox
    /\ onBoxChange = "fn" /\ onTextChange = "fn" /\ textIndex = "0"
    /\ lastEvent = "clickIgnored"
    /\ render = <<>>

----------------------------------------------------------------------------
(* Properties of the export *)

\* the export has drawn: the context was obtained and the loop has run
ExportDrew == exPc # "idle" /\ drawImages = 1

\* the fillText calls made for the detection of a colour (the regions of
\* Regions have distinct colours)
CallsOf(color) ==
    { i \in 1..Len(ctx.calls) : ctx.calls[i].fillStyle = color }

\* C18: a region whose box is missing or has fewer than 4 components is
\* nothing to draw: the export does not raise, paints no text for that
\* region, and still draws the other regions.
C18_MalformedRegionsSkipped ==
    ExportDrew
        => (/\ exError # "TypeError"
            /\ \A k \in 1..Len(textDetections) :
                 LET detection == textDetections[k]
                 IN  IF Len(detection.box_2d) < 4
                     THEN \A i \in CallsOf(detection.color) :
                              ~ctx.calls[i].painted
                     ELSE \E i \in CallsOf(detection.color) :
                              ctx.calls[i].painted)

\* the stored font size in Px units, 16 when none is stored
StoredFontSize(detection) ==
    IF detection.fontSize # 0 THEN detection.fontSize * Px
    ELSE DefaultFontSize * Px

LineCount(label) ==
    Cardinality({ i \in 1..Len(label) : label[i] = "\n" }) + 1

RECURSIVE CallsBefore(_)
\* number of fillText calls made for the detections before the k-th
CallsBefore(k) ==
    IF k <= 1 THEN 0
    ELSE CallsBefore(k - 1) + LineCount(textDetections[k - 1].label)

\* C20: for a region of n lines and font size f, lineHeight = 1.1 f; the
\* first line is at boxTop + (boxHeight - n * lineHeight) / 2 if textAlign
\* is center or unset and at boxTop + 0.1 f otherwise; line i is
\* i * lineHeight below the first.
C20_VerticalPlacement ==
    (ExportDrew /\ ~ctx.thrown)
        => \A k \in 1..Len(textDetections) :
             LET detection == textDetections[k]
                 b == detection.box_2d
                 n == LineCount(detection.label)
                 f == StoredFontSize(detection)
                 boxTop == (b[1] * canvas.height * Px) \div One
                 boxHeight == ((b[3] - b[1]) * canvas.height * Px) \div One
             IN  Len(b) = 4
                   => \A i \in 0..(n - 1) :
                        LET call == ctx.calls[CallsBefore(k) + i + 1]
                        IN  IF detection.textAlign \in {"center", "unset"}
                            THEN 20 * (call.y - boxTop)
                                   = 10 * boxHeight - 11 * n * f + 22 * i * f
                            ELSE 10 * (call.y - boxTop) = f + 11 * i * f

\* two centred lines of size 20 in the box [0.1,0.1,0.3,0.4] of a
\* 1000x1000 image: lines at y = 178 and y = 200
C20_Witness ==
    /\ exPc = "toBlob"
    /\ backgroundImage = [naturalWidth |-> 1000, naturalHeight |-> 1000]
    /\ Len(textDetections) = 1
    /\ textDetections[1].box_2d = <<One \div 10, One \div 10,
                                    (3 * One) \div 10, (4 * One) \div 10>>
    /\ textDetections[1].fontSize = 20
    /\ textDetections[1].textAlign = "center"
    /\ Len(ctx.calls) = 2
    /\ ctx.calls[1].y = 178 * Px
    /\ ctx.calls[2].y = 200 * Px

\* the context after the first k detections of the collection were drawn
ctxAfter(k) ==
    drawDetections(backgroundImage, SubSeq(textDetections, 1, k),
                   exRenderedSize.width)

\* the rotations in a transform, in the order they were applied
rotationsOf(transform) ==
    SelectSeq(transform, LAMBDA t : t.op = "rotate")

\* C21: rotation does not leak between regions: the transform in effect
\* when a region starts drawing is the one in effect before the previous
\* region was drawn, no saved state is left on the stack, and every text
\* is drawn under its own region's rotation only.
C21_RotationDoesNotLeak ==
    ExportDrew
        => (/\ \A k \in 0..Len(textDetections) :
                 /\ ctxAfter(k).transform = FreshContext.transform
                 /\ ctxAfter(k).stack = <<>>
            /\ \A k \in 1..Len(textDetections) :
                 \A i \in CallsOf(textDetections[k].color) :
                     rotationsOf(ctx.calls[i].transform)
                         = IF textDetections[k].rotation = 0 THEN <<>>
                           ELSE << [op |-> "rotate",
                                    a |-> textDetections[k].rotation,
                                    b |-> 0] >>)

\* a region rotated by 30 degrees was drawn before an unrotated one
C21_Witness ==
    /\ exPc = "toBlob"
    /\ Len(textDetections) = 2
    /\ textDetections[1].rotation = 30
    /\ textDetections[2].rotation = 0
    /\ Len(ctx.calls) >= 2
    /\ Len(ctx.calls[1].transform) = 3
    /\ ctx.calls[Len(ctx.calls)].transform = <<>>
    /\ ctx.calls[Len(ctx.calls)].painted

\* C22: with an empty region collection the export draws the background
\* only: no fillText call, no change of the transform or of the saved
\* states, no error from drawing; and it ends as an export does, resolved
\* with one download when a blob is produced.
C22_EmptyCollectionDrawsBackgroundOnly ==
    (ExportDrew /\ textDetections = <<>>)
        => (/\ drawImages = 1
            /\ ctx = [FreshContext EXCEPT !.textBaseline = "top"]
            /\ exError \in {"none", "Failed to create blob from canvas"}
            /\ exPc = "failed" => ~blobAvailable
            /\ exPc = "resolved" => downloads = 1)

\* an export of no region that was downloaded
C22_Witness ==
    /\ textDetections = <<>>
    /\ exPc = "resolved"
    /\ drawImages = 1
    /\ downloads = 1
    /\ ctx.calls = <<>>

\* C23: when no 2D context is obtained the call fails with the context
\* error before anything is drawn, serialized or downloaded.
C23_NoContextAbortsBeforeDrawing ==
    ~ctxAvailable
        => (/\ exPc \in {"idle", "failed"}
            /\ exPc = "failed" => exError = "Could not get canvas context"
            /\ drawImages = 0
            /\ ctx = FreshContext
            /\ canvas = <<>>
            /\ downloads = 0)

\* an export of two regions that failed for want of a context
C23_Witness ==
    /\ ~ctxAvailable
    /\ exPc = "failed"
    /\ exError = "Could not get canvas context"
    /\ Len(textDetections) = 2
    /\ blobAvailable

\* C24: when toBlob yields no blob the promise is rejected with the blob
\* error, which is not the context error, nothing is downloaded and the
\* promise is not resolved afterwards; when a blob is produced the
\* download is triggered exactly once and the promise is resolved.
C24_BlobFailureIsDistinct ==
    /\ [](/\ downloads <= 1
          /\ exPc = "resolved" => (blobAvailable /\ downloads = 1
                                      /\ exError = "none")
          /\ (exPc # "resolved") => downloads = 0
          /\ (exPc = "failed" /\ ctxAvailable /\ ~ctx.thrown)
                => (/\ ~blobAvailable
                    /\ exError = "Failed to create blob from canvas"
                    /\ exError # "Could not get canvas context"))
    /\ [][exPc = "toBlob"
            => exPc' = IF blobAvailable THEN "resolved" ELSE "failed"]_vars
    /\ [][(exPc = "failed" \/ exPc = "resolved") => (exPc' = exPc)]_vars

\* drawing succeeded and the serialization failed
C24_Witness ==
    /\ exPc = "failed"
    /\ exError = "Failed to create blob from canvas"
    /\ drawImages = 1
    /\ Len(ctx.calls) > 0
    /\ downloads = 0

\* the first fillText call made for the k-th detection
firstCall(k) == ctx.calls[CallsBefore(k) + 1]

\* the pixel rectangle of the k-th detection on the canvas, in Px units
canvasRect(k) ==
    LET b == textDetections[k].box_2d
    IN  [ x |-> b[2] * canvas.width * (Px \div One),
          y |-> b[1] * canvas.height * (Px \div One),
          width |-> (b[4] - b[2]) * canvas.width * (Px \div One),
          height |-> (b[3] - b[1]) * canvas.height * (Px \div One) ]

\* where the export put the first line of the k-th detection: centred in
\* the box or a tenth of the font size under its top
exportVerticalPlacement(k) ==
    LET r == canvasRect(k)
        f == firstCall(k).font.size
        n == LineCount(textDetections[k].label)
    IN  IF firstCall(k).y = r.y + (r.height - n * lineHeightOf(f)) \div 2
        THEN "center"
        ELSE IF firstCall(k).y = r.y + paddingOf(f) THEN "top"
        ELSE "other"

\* the point of the box the export anchored the k-th detection's lines to:
\* the x passed to fillText together with the context's textAlign
exportHorizontalAnchor(k) ==
    LET r == canvasRect(k)
        call == firstCall(k)
        f == call.font.size
    IN  IF call.textAlign = "center" /\ call.x = r.x + r.width \div 2
        THEN "midpoint"
        ELSE IF call.textAlign = "right"
                  /\ call.x = r.x + r.width - paddingOf(f)
        THEN "right"
        ELSE IF call.textAlign \in {"left", "start"}
                  /\ call.x = r.x + paddingOf(f)
        THEN "left"
        ELSE "other"

\* C25: for every region and every stored textAlign, the export places
\* the text vertically (centred or at the top) and anchors it horizontally
\* (left edge, midpoint, right edge) as the overlay does.
C25_SameLayoutRule ==
    (ExportDrew /\ ~ctx.thrown)
        => \A k \in 1..Len(textDetections) :
             Len(textDetections[k].box_2d) = 4
               => (/\ exportVerticalPlacement(k)
                       = overlayVerticalPlacement(textDetections[k])
                   /\ exportHorizontalAnchor(k)
                       = overlayHorizontalAnchor(textDetections[k]))

----------------------------------------------------------------------------
(* Properties of the move step and of the anchor *)

\* C27: a move step clamps each of the four coordinates independently:
\* the committed box is [clamp01(yMin+dy), clamp01(xMin+dx),
\* clamp01(yMax+dy), clamp01(xMax+dx)] for the normalized delta (dx,dy).
C27_MoveClampsEachCoordinate ==
    lastEvent = "moveStep"
        => LET dx == (lastDeltaX * One) \div renderedSize.width
               dy == (lastDeltaY * One) \div renderedSize.height
               clamp01(v) == IF v < 0 THEN 0 ELSE IF v > One THEN One ELSE v
           IN  committed = << clamp01(prevBox[1] + dy),
                              clamp01(prevBox[2] + dx),
                              clamp01(prevBox[3] + dy),
                              clamp01(prevBox[4] + dx) >>

\* [0.98,0.1,1,0.5] moved by (+0.02,+0.03): yMin is clamped to 1 and the
\* height collapses, the x coordinates shift freely
C27_Witness ==
    /\ lastEvent = "moveStep"
    /\ prevBox = <<980, 100, One, 500>>
    /\ committed = <<One, 120, One, 520>>

\* C28: after each handled pointer-move the anchor is that event's
\* pointer position; and over a gesture whose moves clamp no coordinate
\* the total shift of the box, times the rendered size, is the pointer's
\* travel since the pointer-down: box - anchor is what it was then.
C28_DeltasAreIncremental ==
    /\ Committing => dragStart = lastPointer
    /\ gestureOffset # <<>>
          => offsetFrom(box_2d, dragStart, renderedSize) = gestureOffset

\* pointer-down at (100,100) on [0.5,0.5,0.6,0.6], then two pointer-moves
\* ending at (110,115): a total shift of (+0.02,+0.03)
C28_Witness ==
    /\ lastEvent = "moveStep"
    /\ nCommits = 2
    /\ renderedSize = [width |-> 500, height |-> 500]
    /\ dragStart = [x |-> 110, y |-> 115]
    /\ gestureOffset = offsetFrom(<<500, 500, 600, 600>>,
                                  [x |-> 100, y |-> 100], renderedSize)
    /\ box_2d = <<530, 520, 630, 620>>

----------------------------------------------------------------------------
(* Properties of the consolidation *)

\* the places <<detection, line>> of the lines of the labels of a list
linesOf(detections) ==
    UNION { { <<k, j>> : j \in 1..Len(split(detections[k].label)) } :
            k \in 1..Len(detections) }

\* how many times the line l stands in the labels of the detections
occurrences(detections, l) ==
    Cardinality({ kj \in linesOf(detections) :
                    split(detections[kj[1]].label)[kj[2]] = l })

\* the lines of the labels of the model's detections
LabelLines == { d.label : d \in Detections }

\* C30: consolidation partitions its input, whatever groups the service
\* returns: the output has no more entries than the input and every label
\* of the input stands in the output exactly as often as in the input.
C30_ConsolidationPartitions ==
    svcPc = "returned"
        => (/\ Len(svcResult) <= Len(svcDetections)
            /\ \A l \in LabelLines :
                 occurrences(svcResult, l) = occurrences(svcDetections, l))

\* the lines of a label, as a set
lineSet(label) == { split(label)[j] : j \in 1..Len(split(label)) }

\* C26: a merged detection is produced only from detections of one
\* colour: every detection of the merged list has the colour of each
\* detection of the input whose label went into it.
C26_MergesOneColourOnly ==
    appEvent = "consolidated"
        => \A k \in 1..Len(appTextDetections) :
             \A i \in 1..Len(mergeInput) :
                 lineSet(mergeInput[i].label)
                         \subseteq lineSet(appTextDetections[k].label)
                     => mergeInput[i].color = appTextDetections[k].color

\* C29: the step is result or recomposed, or the detection list is not
\* empty, only if a file is selected; a request that settles after
\* handleReset leaves the App at step upload, no file, no detection.
C29_ResetIsFinal ==
    (step \in {"result", "recomposed"} \/ appTextDetections # <<>>)
        => selectedFile # "null"

====
